---- MODULE Spec2Model ----
(***************************************************************************)
(* BufferedClient of fluent/client/buffered_client.go: application threads *)
(* calling Connect, Disconnect, Stop, Sync, SendRaw and Send concurrently  *)
(* with the flushLoop goroutines and the ticker.                           *)
(*                                                                         *)
(* A byte of a payload is the number of the write call that submitted it,  *)
(* so the transport log tells which call every byte came from.             *)
(***************************************************************************)
EXTENDS Integers, Sequences, FiniteSets, TLC

\* ---------------------------------------------------------------- bounds
NThreads == 2
MaxOps == 4
MaxConn == 2
MaxWrites == 2
MaxLen == 2
BufferSize == 3

Threads == 1 .. NThreads
ConnIds == 1 .. MaxConn
\* one flushLoop goroutine can be started per connection
LoopIds == (NThreads + 1) .. (NThreads + MaxConn)
Procs == Threads \cup LoopIds

VARIABLES
  requireAck,    \* Client.RequireAck
  session,       \* Client.session: [conn, tp]; conn = 0 is the nil session
  writer,        \* bc.writer: the connection it wraps; 0 is the nil writer
  buf,           \* buf[c]: bytes held by the msgp.Writer made for connection c
  nConn,         \* connections the factory has produced
  closed,        \* connections that were closed
  transport,     \* transport[c]: bytes written onto connection c, in order
  sessionLock,   \* Client.sessionLock: [w: write holder or 0, r: read holders]
  mutex,         \* bc.mutex holder, 0 when unlocked
  ackLock,       \* Client.ackLock holder, 0 when unlocked
  tickPending,   \* a tick sits in ticker.C (capacity 1)
  tickerStopped, \* ticker.Stop() was called
  stopClosed,    \* bc.stop is closed
  doneClosed,    \* bc.done is closed
  nLoops,        \* flushLoop goroutines started so far
  pc,            \* pc[p]: [op, at], the call process p executes and where it is
  mw,            \* mw[p]: the msgp.Writer receiver of the call p executes, or 0
  cur,           \* cur[t]: number of the write call thread t executes, or 0
  res,           \* res[t]: outcome of the last call thread t completed
  ops,           \* calls issued so far
  wlen,          \* wlen[k]: payload length of write call k
  acc,           \* write calls that returned without error
  panic,         \* "none", or why the process crashed
  hist           \* observations about earlier steps, used to state properties

vars == <<requireAck, session, writer, buf, nConn, closed, transport,
          sessionLock, mutex, ackLock, tickPending, tickerStopped, stopClosed,
          doneClosed, nLoops, pc, mw, cur, res, ops, wlen, acc, panic, hist>>

NoSession == [conn |-> 0, tp |-> FALSE]
At(o, a) == [op |-> o, at |-> a]
\* a process that executes no call; op is the call it made last
Idle == At("none", "idle")
IsIdle(p) == pc[p].at = "idle"

\* the fields of hist
NoHist == [stopReturned |-> FALSE,   \* some Stop() call has returned
           lateFlush |-> FALSE,      \* a scheduled flush began after that
           connCalls |-> 0,          \* Connect() calls so far
           connOK |-> 0,             \* Connect() calls that returned nil since the session was last nil
           connFailed |-> FALSE,     \* establishing a connection has failed
           flushed |-> FALSE,        \* Sync was called, or a flushLoop took a tick
           accAt |-> [t \in Threads |-> {}],   \* acc when thread t called Sync
           down |-> 0,               \* Stop (1), then Sync (2), then Disconnect (3) have returned
           epoch |-> 0,              \* changes of Client.session so far
           caller |-> 0,             \* the thread that made the latest call
           at |-> [t \in Threads |-> 0],        \* epoch when thread t's call began
           wrote |-> [t \in Threads |-> FALSE], \* thread t's call touched the writer
           send |-> FALSE,           \* Send has been called
           stopOn |-> FALSE,         \* the last Stop was called on a connected client
           swallowed |-> {},         \* flushLoops that had a flush fail
           flushDone |-> FALSE]      \* a flush of Sync has run to completion

\* NewBufferedClient
Init ==
  /\ requireAck \in BOOLEAN
  /\ session = NoSession
  /\ writer = 0
  /\ buf = [c \in ConnIds |-> <<>>]
  /\ nConn = 0
  /\ closed = {}
  /\ transport = [c \in ConnIds |-> <<>>]
  /\ sessionLock = [w |-> 0, r |-> {}]
  /\ mutex = 0
  /\ ackLock = 0
  /\ tickPending = FALSE
  /\ tickerStopped = FALSE
  /\ stopClosed = FALSE
  /\ doneClosed = FALSE
  /\ nLoops = 0
  /\ pc = [p \in Procs |-> Idle]
  /\ mw = [p \in Procs |-> 0]
  /\ cur = [t \in Threads |-> 0]
  /\ res = [t \in Threads |-> "none"]
  /\ ops = 0
  /\ wlen = <<>>
  /\ acc = {}
  /\ panic = "none"
  /\ hist = NoHist

Alive == panic = "none"

\* thread t may begin a call
CanBegin(t) ==
  /\ Alive
  /\ IsIdle(t)
  /\ ops < MaxOps

\* hist when thread t begins a call
HistBegin(t) ==
  [hist EXCEPT !.at[t] = hist.epoch, !.wrote[t] = FALSE, !.caller = t]

\* thread t returns r from its call
Return(t, r) ==
  /\ pc' = [pc EXCEPT ![t] = At(pc[t].op, "idle")]
  /\ res' = [res EXCEPT ![t] = r]

\* sync.RWMutex of Client.sessionLock
CanLock == sessionLock.w = 0 /\ sessionLock.r = {}
CanRLock == sessionLock.w = 0
Unlocked == [w |-> 0, r |-> {}]

\* ---------------------------------------------------------------- Connect
\* Client.connect: what establishing the connection can come to
ConnectOutcomes == IF nConn < MaxConn THEN {"fail", "handshake", "ok"} ELSE {"fail"}

\* the guard of Connect on the session it finds
SessionActive(s) == s.conn # 0

\* Connect without the guard of lines 133-135
Connect_NoGuard(t) ==
  /\ CanBegin(t)
  /\ CanLock
  /\ ops' = ops + 1
  /\ hist' = [HistBegin(t) EXCEPT !.connCalls = @ + 1, !.down = 0]
  /\ pc' = [pc EXCEPT ![t] = At("Connect", "connect")]
  /\ res' = [res EXCEPT ![t] = "none"]
  /\ sessionLock' = [w |-> t, r |-> {}]
  /\ UNCHANGED <<requireAck, session, writer, buf, nConn, closed, transport,
                 mutex, ackLock, tickPending, tickerStopped, stopClosed,
                 doneClosed, nLoops, mw, cur, wlen, acc, panic>>

\* Connect, lines 129-137: the session lock is taken and the session checked
Connect(t) ==
  /\ CanBegin(t)
  /\ CanLock
  /\ ops' = ops + 1
  /\ hist' = [HistBegin(t) EXCEPT !.connCalls = @ + 1, !.down = 0]
  /\ IF SessionActive(session)
       THEN /\ pc' = [pc EXCEPT ![t] = At("Connect", "idle")]
            /\ res' = [res EXCEPT ![t] = "AlreadyConnected"]
            /\ UNCHANGED sessionLock
       ELSE /\ pc' = [pc EXCEPT ![t] = At("Connect", "connect")]
            /\ res' = [res EXCEPT ![t] = "none"]
            /\ sessionLock' = [w |-> t, r |-> {}]
  /\ UNCHANGED <<requireAck, session, writer, buf, nConn, closed, transport,
                 mutex, ackLock, tickPending, tickerStopped, stopClosed,
                 doneClosed, nLoops, mw, cur, wlen, acc, panic>>

\* connect, lines 245-257, and the deferred unlock of Connect
connect(t) ==
  /\ Alive
  /\ pc[t] = At("Connect", "connect")
  /\ \E o \in ConnectOutcomes :
       CASE o = "fail" ->
              /\ Return(t, "ConnectFailure")
              /\ hist' = [hist EXCEPT !.connFailed = TRUE]
              /\ UNCHANGED <<session, writer, buf, nConn, nLoops>>
         [] o = "handshake" ->
              /\ nConn' = nConn + 1
              /\ session' = [conn |-> nConn', tp |-> FALSE]
              /\ hist' = [hist EXCEPT !.epoch = @ + 1, !.connFailed = TRUE]
              /\ Return(t, "ConnectFailure")
              /\ UNCHANGED <<writer, buf, nLoops>>
         [] o = "ok" ->
              /\ nConn' = nConn + 1
              /\ session' = [conn |-> nConn', tp |-> TRUE]
              /\ writer' = nConn'
              /\ buf' = [buf EXCEPT ![nConn'] = <<>>]
              /\ nLoops' = nLoops + 1
              /\ hist' = [hist EXCEPT !.epoch = @ + 1, !.connOK = @ + 1]
              /\ pc' = [pc EXCEPT ![t] = At("Connect", "idle"),
                                  ![NThreads + nLoops'] = At("flushLoop", "select")]
              /\ res' = [res EXCEPT ![t] = "nil"]
  /\ sessionLock' = Unlocked
  /\ UNCHANGED <<requireAck, closed, transport, mutex, ackLock, tickPending,
                 tickerStopped, stopClosed, doneClosed, mw, cur, ops, wlen,
                 acc, panic>>

\* ------------------------------------------------------------- Disconnect
\* Disconnect, lines 141-143: Client.Disconnect under the session lock
Disconnect(t) ==
  /\ CanBegin(t)
  /\ CanLock
  /\ ops' = ops + 1
  /\ pc' = [pc EXCEPT ![t] = At("Disconnect", "idle")]
  /\ res' = [res EXCEPT ![t] = "nil"]
  /\ closed' = IF SessionActive(session) THEN closed \cup {session.conn} ELSE closed
  /\ session' = NoSession
  /\ hist' = [HistBegin(t) EXCEPT !.epoch = IF SessionActive(session) THEN @ + 1 ELSE @,
                                  !.connOK = 0,
                                  !.down = IF hist.down = 2 THEN 3 ELSE 0]
  /\ UNCHANGED <<requireAck, writer, buf, nConn, transport, sessionLock, mutex,
                 ackLock, tickPending, tickerStopped, stopClosed, doneClosed,
                 nLoops, mw, cur, wlen, acc, panic>>

\* -------------------------------------------------------------- Reconnect
\* Reconnect, lines 145-147: Client.Reconnect takes the session lock and
\* closes the session it finds
Reconnect(t) ==
  /\ CanBegin(t)
  /\ CanLock
  /\ ops' = ops + 1
  /\ pc' = [pc EXCEPT ![t] = At("Reconnect", "connect")]
  /\ res' = [res EXCEPT ![t] = "none"]
  /\ sessionLock' = [w |-> t, r |-> {}]
  /\ closed' = IF SessionActive(session) THEN closed \cup {session.conn} ELSE closed
  /\ session' = NoSession
  /\ hist' = [HistBegin(t) EXCEPT !.epoch = IF SessionActive(session) THEN @ + 1 ELSE @,
                                  !.connOK = 0,
                                  !.down = 0]
  /\ UNCHANGED <<requireAck, writer, buf, nConn, transport, mutex, ackLock,
                 tickPending, tickerStopped, stopClosed, doneClosed, nLoops,
                 mw, cur, wlen, acc, panic>>

\* Client.Reconnect goes on to Client.connect: the session is established
\* anew, while bc.writer and the flushLoop goroutines are out of its reach
Reconnect_connect(t) ==
  /\ Alive
  /\ pc[t] = At("Reconnect", "connect")
  /\ \E o \in ConnectOutcomes :
       CASE o = "fail" ->
              /\ Return(t, "ConnectFailure")
              /\ UNCHANGED <<session, nConn, hist>>
         [] o = "handshake" ->
              /\ nConn' = nConn + 1
              /\ session' = [conn |-> nConn', tp |-> FALSE]
              /\ hist' = [hist EXCEPT !.epoch = @ + 1]
              /\ Return(t, "ConnectFailure")
         [] o = "ok" ->
              /\ nConn' = nConn + 1
              /\ session' = [conn |-> nConn', tp |-> TRUE]
              /\ hist' = [hist EXCEPT !.epoch = @ + 1]
              /\ Return(t, "nil")
  /\ sessionLock' = Unlocked
  /\ UNCHANGED <<requireAck, writer, buf, closed, transport, mutex, ackLock,
                 tickPending, tickerStopped, stopClosed, doneClosed, nLoops,
                 mw, cur, ops, wlen, acc, panic>>

\* ---------------------------------------------------- ticker and flushLoop
\* time.Ticker armed by NewBufferedClient, line 87: a tick is dropped while
\* one is still waiting in the channel
Tick ==
  /\ Alive
  /\ ~tickerStopped
  /\ ~tickPending
  /\ tickPending' = TRUE
  /\ UNCHANGED <<requireAck, session, writer, buf, nConn, closed, transport,
                 sessionLock, mutex, ackLock, tickerStopped, stopClosed,
                 doneClosed, nLoops, pc, mw, cur, res, ops, wlen, acc, panic,
                 hist>>

\* flushLoop, lines 101-103: the select takes the tick
flushLoop_Tick(l) ==
  /\ Alive
  /\ pc[l] = At("flushLoop", "select")
  /\ tickPending
  /\ tickPending' = FALSE
  /\ pc' = [pc EXCEPT ![l] = At("flushLoop", "lock")]
  /\ hist' = [hist EXCEPT !.flushed = TRUE]
  /\ UNCHANGED <<requireAck, session, writer, buf, nConn, closed, transport,
                 sessionLock, mutex, ackLock, tickerStopped, stopClosed,
                 doneClosed, nLoops, mw, cur, res, ops, wlen, acc, panic>>

\* flushLoop, lines 104-105, and the deferred close(bc.done) of line 98
flushLoop_Stop(l) ==
  /\ Alive
  /\ pc[l] = At("flushLoop", "select")
  /\ stopClosed
  /\ pc' = [pc EXCEPT ![l] = At("flushLoop", "exited")]
  /\ IF doneClosed
       THEN panic' = "close of closed channel" /\ UNCHANGED doneClosed
       ELSE doneClosed' = TRUE /\ UNCHANGED panic
  /\ UNCHANGED <<requireAck, session, writer, buf, nConn, closed, transport,
                 sessionLock, mutex, ackLock, tickPending, tickerStopped,
                 stopClosed, nLoops, mw, cur, res, ops, wlen, acc, hist>>

\* ------------------------------------------------------------------- Sync
\* the processes inside Sync: a thread that called it, or a flushLoop at line 103
InSync(p) == pc[p].op \in {"Sync", "flushLoop"}

\* where a process goes when its Sync returns
AfterSync(p) == IF p \in Threads THEN At("Sync", "idle") ELSE At("flushLoop", "select")

\* hist.down when a Sync called by a thread returns nil
SyncDown == IF hist.down \in {1, 2} THEN 2 ELSE 0

\* Sync, lines 111-114, entered by process p: the mutex is taken and
\* Writer.Flush hands the buffered bytes to the connection
Flush(p) ==
  /\ mutex = 0
  /\ IF writer = 0
       THEN /\ panic' = "nil writer"
            /\ mutex' = p
            /\ pc' = [pc EXCEPT ![p] = At(AfterSync(p).op, "flush")]
            /\ UNCHANGED <<transport, mw, res>>
       ELSE IF buf[writer] = <<>> \/ writer \in closed
         THEN /\ pc' = [pc EXCEPT ![p] = AfterSync(p)]
              /\ res' = IF p \in Threads
                          THEN [res EXCEPT ![p] = IF buf[writer] = <<>>
                                                    THEN "nil" ELSE "WriteFailure"]
                          ELSE res
              /\ UNCHANGED <<transport, mutex, mw, panic>>
         ELSE /\ transport' = [transport EXCEPT ![writer] = @ \o buf[writer]]
              /\ mutex' = p
              /\ mw' = [mw EXCEPT ![p] = writer]
              /\ pc' = [pc EXCEPT ![p] = At(AfterSync(p).op, "reset")]
              /\ res' = IF p \in Threads THEN [res EXCEPT ![p] = "none"] ELSE res
              /\ UNCHANGED panic

\* Sync, lines 110-114, called by a thread
Sync(t) ==
  /\ CanBegin(t)
  /\ ops' = ops + 1
  /\ Flush(t)
  /\ hist' = [HistBegin(t) EXCEPT
                !.flushed = TRUE,
                !.accAt[t] = acc,
                !.down = IF writer # 0 /\ buf[writer] = <<>> THEN SyncDown ELSE @]
  /\ UNCHANGED <<requireAck, session, writer, buf, nConn, closed, sessionLock,
                 ackLock, tickPending, tickerStopped, stopClosed, doneClosed,
                 nLoops, cur, wlen, acc>>

\* Writer.Flush has bytes to hand over and the connection is closed
FlushFails == writer # 0 /\ buf[writer] # <<>> /\ writer \in closed

\* hist when a flushLoop calls Sync
HistLoopSync(l) ==
  [hist EXCEPT !.lateFlush = @ \/ hist.stopReturned,
               !.swallowed = IF FlushFails THEN @ \cup {l} ELSE @]

\* flushLoop returning when the Sync of line 103 fails
flushLoop_Sync_ExitOnError(l) ==
  /\ Alive
  /\ pc[l] = At("flushLoop", "lock")
  /\ IF FlushFails /\ mutex = 0
       THEN /\ pc' = [pc EXCEPT ![l] = At("flushLoop", "exited")]
            /\ UNCHANGED <<transport, mutex, mw, res, panic>>
       ELSE Flush(l)
  /\ hist' = HistLoopSync(l)
  /\ UNCHANGED <<requireAck, session, writer, buf, nConn, closed, sessionLock,
                 ackLock, tickPending, tickerStopped, stopClosed, doneClosed,
                 nLoops, cur, ops, wlen, acc>>

\* flushLoop, line 103: Sync called for the tick taken, its error dropped
flushLoop_Sync(l) ==
  /\ Alive
  /\ pc[l] = At("flushLoop", "lock")
  /\ Flush(l)
  /\ hist' = HistLoopSync(l)
  /\ UNCHANGED <<requireAck, session, writer, buf, nConn, closed, sessionLock,
                 ackLock, tickPending, tickerStopped, stopClosed, doneClosed,
                 nLoops, cur, ops, wlen, acc>>

\* Sync, lines 112-114: Writer.Flush empties the buffer, then the deferred unlock
Sync_Reset(p) ==
  /\ Alive
  /\ InSync(p)
  /\ pc[p].at = "reset"
  /\ buf' = [buf EXCEPT ![mw[p]] = <<>>]
  /\ mw' = [mw EXCEPT ![p] = 0]
  /\ mutex' = 0
  /\ pc' = [pc EXCEPT ![p] = AfterSync(p)]
  /\ res' = IF p \in Threads THEN [res EXCEPT ![p] = "nil"] ELSE res
  /\ hist' = [hist EXCEPT !.down = IF p \in Threads THEN SyncDown ELSE @,
                          !.flushDone = TRUE]
  /\ UNCHANGED <<requireAck, session, writer, nConn, closed, transport,
                 sessionLock, ackLock, tickPending, tickerStopped, stopClosed,
                 doneClosed, nLoops, cur, ops, wlen, acc, panic>>

\* ------------------------------------------------------------------- Stop
\* a session in its transport phase is active and a flushLoop goroutine runs
Connected ==
  /\ SessionActive(session) /\ session.tp
  /\ \E l \in LoopIds : pc[l].op = "flushLoop" /\ pc[l].at # "exited"

\* Stop going ahead without waiting for bc.mutex
Stop_NoMutex(t) ==
  /\ CanBegin(t)
  /\ mutex' = t
  /\ ops' = ops + 1
  /\ res' = [res EXCEPT ![t] = "none"]
  /\ hist' = [HistBegin(t) EXCEPT !.stopOn = Connected]
  /\ tickerStopped' = TRUE
  /\ IF stopClosed
       THEN /\ panic' = "close of closed channel"
            /\ pc' = [pc EXCEPT ![t] = At("Stop", "disarm")]
            /\ UNCHANGED stopClosed
       ELSE /\ stopClosed' = TRUE
            /\ pc' = [pc EXCEPT ![t] = At("Stop", "wait")]
            /\ UNCHANGED panic
  /\ UNCHANGED <<requireAck, session, writer, buf, nConn, closed, transport,
                 sessionLock, ackLock, tickPending, doneClosed, nLoops, mw,
                 cur, wlen, acc>>

\* Stop, lines 119-123: under the mutex the ticker is stopped and bc.stop closed
Stop(t) ==
  /\ CanBegin(t)
  /\ mutex = 0
  /\ mutex' = t
  /\ ops' = ops + 1
  /\ res' = [res EXCEPT ![t] = "none"]
  /\ hist' = [HistBegin(t) EXCEPT !.stopOn = Connected]
  /\ tickerStopped' = TRUE
  /\ IF stopClosed
       THEN /\ panic' = "close of closed channel"
            /\ pc' = [pc EXCEPT ![t] = At("Stop", "disarm")]
            /\ UNCHANGED stopClosed
       ELSE /\ stopClosed' = TRUE
            /\ pc' = [pc EXCEPT ![t] = At("Stop", "wait")]
            /\ UNCHANGED panic
  /\ UNCHANGED <<requireAck, session, writer, buf, nConn, closed, transport,
                 sessionLock, ackLock, tickPending, doneClosed, nLoops, mw,
                 cur, wlen, acc>>

\* Stop, line 124, and the deferred unlock of line 120
Stop_Wait(t) ==
  /\ Alive
  /\ pc[t] = At("Stop", "wait")
  /\ doneClosed
  /\ mutex' = 0
  /\ Return(t, "nil")
  /\ hist' = [hist EXCEPT !.stopReturned = TRUE, !.down = 1]
  /\ UNCHANGED <<requireAck, session, writer, buf, nConn, closed, transport,
                 sessionLock, ackLock, tickPending, tickerStopped, stopClosed,
                 doneClosed, nLoops, mw, cur, ops, wlen, acc, panic>>

\* ------------------------------------------------------- SendRaw and Send
\* the payload of write call k: wlen[k] bytes, each carrying k
Payload(k) == [i \in 1 .. wlen[k] |-> k]

Min(a, b) == IF a < b THEN a ELSE b

\* copy(mw.buf[mw.wloc:], p): what fits into the buffer is kept
Copied(b, p) == SubSeq(b \o p, 1, Min(BufferSize, Len(b) + Len(p)))

\* a thread may begin a call that writes a payload
CanBeginWrite(t) == CanBegin(t) /\ Len(wlen) < MaxWrites

\* a send call of thread t returns r: the deferred unlocks of lines 155, 179, 200
Finish(t, r) ==
  /\ Return(t, r)
  /\ sessionLock' = [sessionLock EXCEPT !.r = @ \ {t}]
  /\ ackLock' = IF ackLock = t THEN 0 ELSE ackLock

\* SendRaw, lines 150-152: the session is read before the lock is taken
SendRaw_Check(t) ==
  /\ CanBeginWrite(t)
  /\ \E n \in 1 .. MaxLen : wlen' = Append(wlen, n)
  /\ cur' = [cur EXCEPT ![t] = Len(wlen')]
  /\ ops' = ops + 1
  /\ hist' = [HistBegin(t) EXCEPT !.down = 0]
  /\ IF ~SessionActive(session)
       THEN /\ pc' = [pc EXCEPT ![t] = At("SendRaw", "idle")]
            /\ res' = [res EXCEPT ![t] = "NoActiveSession"]
       ELSE /\ pc' = [pc EXCEPT ![t] = At("SendRaw", "rlock")]
            /\ res' = [res EXCEPT ![t] = "none"]
  /\ UNCHANGED <<requireAck, session, writer, buf, nConn, closed, transport,
                 sessionLock, mutex, ackLock, tickPending, tickerStopped,
                 stopClosed, doneClosed, nLoops, mw, acc, panic>>

\* SendRaw, lines 154-159: under the read lock the transport phase is checked
SendRaw_Phase(t) ==
  /\ Alive
  /\ pc[t] = At("SendRaw", "rlock")
  /\ CanRLock
  /\ IF ~SessionActive(session)
       THEN /\ panic' = "nil session"
            /\ pc' = [pc EXCEPT ![t] = At("SendRaw", "phase")]
            /\ UNCHANGED <<res, sessionLock>>
       ELSE IF ~session.tp
         THEN /\ Return(t, "HandshakeIncomplete")
              /\ UNCHANGED <<sessionLock, panic>>
         ELSE /\ pc' = [pc EXCEPT ![t] = At("SendRaw", "write")]
              /\ sessionLock' = [sessionLock EXCEPT !.r = @ \cup {t}]
              /\ UNCHANGED <<res, panic>>
  /\ UNCHANGED <<requireAck, session, writer, buf, nConn, closed, transport,
                 mutex, ackLock, tickPending, tickerStopped, stopClosed,
                 doneClosed, nLoops, mw, cur, ops, wlen, acc, hist>>

\* where Send goes once its checks have passed: lines 193-201
SendOn == IF requireAck THEN "acklock" ELSE "write"

\* Send without the guard of lines 186-188
Send_NoPhase(t) ==
  /\ CanBeginWrite(t)
  /\ CanRLock
  /\ \E n \in 1 .. MaxLen : wlen' = Append(wlen, n)
  /\ cur' = [cur EXCEPT ![t] = Len(wlen')]
  /\ ops' = ops + 1
  /\ hist' = [HistBegin(t) EXCEPT !.send = TRUE, !.down = 0]
  /\ IF ~SessionActive(session)
       THEN /\ pc' = [pc EXCEPT ![t] = At("Send", "idle")]
            /\ res' = [res EXCEPT ![t] = "NoActiveSession"]
            /\ UNCHANGED sessionLock
       ELSE /\ pc' = [pc EXCEPT ![t] = At("Send", SendOn)]
            /\ res' = [res EXCEPT ![t] = "none"]
            /\ sessionLock' = [sessionLock EXCEPT !.r = @ \cup {t}]
  /\ UNCHANGED <<requireAck, session, writer, buf, nConn, closed, transport,
                 mutex, ackLock, tickPending, tickerStopped, stopClosed,
                 doneClosed, nLoops, mw, acc, panic>>

\* Send, lines 177-197: under the read lock the session is checked
Send(t) ==
  /\ CanBeginWrite(t)
  /\ CanRLock
  /\ \E n \in 1 .. MaxLen : wlen' = Append(wlen, n)
  /\ cur' = [cur EXCEPT ![t] = Len(wlen')]
  /\ ops' = ops + 1
  /\ hist' = [HistBegin(t) EXCEPT !.send = TRUE, !.down = 0]
  /\ IF ~SessionActive(session) \/ ~session.tp
       THEN /\ pc' = [pc EXCEPT ![t] = At("Send", "idle")]
            /\ res' = [res EXCEPT ![t] = IF SessionActive(session)
                                          THEN "HandshakeIncomplete"
                                          ELSE "NoActiveSession"]
            /\ UNCHANGED sessionLock
       ELSE /\ pc' = [pc EXCEPT ![t] = At("Send", SendOn)]
            /\ res' = [res EXCEPT ![t] = "none"]
            /\ sessionLock' = [sessionLock EXCEPT !.r = @ \cup {t}]
  /\ UNCHANGED <<requireAck, session, writer, buf, nConn, closed, transport,
                 mutex, ackLock, tickPending, tickerStopped, stopClosed,
                 doneClosed, nLoops, mw, acc, panic>>

\* Send taking ackLock without waiting for its holder
Send_AckLock_NoWait(t) ==
  /\ Alive
  /\ pc[t] = At("Send", "acklock")
  /\ ackLock' = t
  /\ pc' = [pc EXCEPT ![t] = At("Send", "write")]
  /\ UNCHANGED <<requireAck, session, writer, buf, nConn, closed, transport,
                 sessionLock, mutex, tickPending, tickerStopped, stopClosed,
                 doneClosed, nLoops, mw, cur, res, ops, wlen, acc, panic, hist>>

\* Send, line 199
Send_AckLock(t) ==
  /\ Alive
  /\ pc[t] = At("Send", "acklock")
  /\ ackLock = 0
  /\ ackLock' = t
  /\ pc' = [pc EXCEPT ![t] = At("Send", "write")]
  /\ UNCHANGED <<requireAck, session, writer, buf, nConn, closed, transport,
                 sessionLock, mutex, tickPending, tickerStopped, stopClosed,
                 doneClosed, nLoops, mw, cur, res, ops, wlen, acc, panic, hist>>

\* ---------------------------------------------------- writing a payload
\* the threads inside bc.writer.Write (line 165) or e.EncodeMsg(bc.writer) (line 205)
InWrite(t) == pc[t].op \in {"SendRaw", "Send"} /\ ~IsIdle(t)

\* the write of thread t has ended with outcome r ("nil" or an error)
Written(t, r) ==
  IF r = "nil"
    THEN /\ acc' = acc \cup {cur[t]}
         /\ IF pc[t].op = "Send" /\ requireAck
              THEN /\ pc' = [pc EXCEPT ![t] = At("Send", "ack")]
                   /\ UNCHANGED <<res, sessionLock, ackLock>>
              ELSE Finish(t, "nil")
    ELSE /\ Finish(t, r)
         /\ UNCHANGED acc

\* the payload goes to the connection directly, past the buffer
WriteThrough(t, w) ==
  IF w \in closed
    THEN Written(t, "WriteFailure") /\ UNCHANGED transport
    ELSE /\ transport' = [transport EXCEPT ![w] = @ \o Payload(cur[t])]
         /\ Written(t, "nil")

\* Writer.Write: room is checked; a buffer too full for the payload is handed
\* to the connection first
Write_Begin(t) ==
  /\ Alive
  /\ InWrite(t)
  /\ pc[t].at = "write"
  /\ hist' = [hist EXCEPT !.wrote[t] = TRUE]
  /\ IF writer = 0
       THEN /\ panic' = "nil writer"
            /\ UNCHANGED <<transport, pc, mw, res, sessionLock, ackLock, acc>>
       ELSE /\ UNCHANGED panic
            /\ IF BufferSize - Len(buf[writer]) >= wlen[cur[t]]
                 THEN /\ pc' = [pc EXCEPT ![t] = At(pc[t].op, "copy")]
                      /\ mw' = [mw EXCEPT ![t] = writer]
                      /\ UNCHANGED <<transport, res, sessionLock, ackLock, acc>>
                 ELSE IF buf[writer] = <<>>
                   THEN WriteThrough(t, writer) /\ UNCHANGED mw
                   ELSE IF writer \in closed
                     THEN Written(t, "WriteFailure") /\ UNCHANGED <<transport, mw>>
                     ELSE /\ transport' = [transport EXCEPT ![writer] = @ \o buf[writer]]
                          /\ pc' = [pc EXCEPT ![t] = At(pc[t].op, "reset")]
                          /\ mw' = [mw EXCEPT ![t] = writer]
                          /\ UNCHANGED <<res, sessionLock, ackLock, acc>>
  /\ UNCHANGED <<requireAck, session, writer, buf, nConn, closed, mutex,
                 tickPending, tickerStopped, stopClosed, doneClosed, nLoops,
                 cur, ops, wlen>>

\* Writer.Write: the buffer handed over is emptied
Write_Reset(t) ==
  /\ Alive
  /\ InWrite(t)
  /\ pc[t].at = "reset"
  /\ buf' = [buf EXCEPT ![mw[t]] = <<>>]
  /\ IF wlen[cur[t]] > BufferSize
       THEN WriteThrough(t, mw[t]) /\ mw' = [mw EXCEPT ![t] = 0]
       ELSE /\ pc' = [pc EXCEPT ![t] = At(pc[t].op, "copy")]
            /\ UNCHANGED <<transport, mw, res, sessionLock, ackLock, acc>>
  /\ UNCHANGED <<requireAck, session, writer, nConn, closed, mutex,
                 tickPending, tickerStopped, stopClosed, doneClosed, nLoops,
                 cur, ops, wlen, panic, hist>>

\* Writer.Write: the payload is copied behind the bytes the buffer holds
Write_Copy(t) ==
  /\ Alive
  /\ InWrite(t)
  /\ pc[t].at = "copy"
  /\ buf' = [buf EXCEPT ![mw[t]] = Copied(@, Payload(cur[t]))]
  /\ mw' = [mw EXCEPT ![t] = 0]
  /\ Written(t, "nil")
  /\ UNCHANGED <<requireAck, session, writer, nConn, closed, transport, mutex,
                 tickPending, tickerStopped, stopClosed, doneClosed, nLoops,
                 cur, ops, wlen, panic, hist>>

\* the bytes of write call k seen on connection c
Seen(k, c) == Cardinality({i \in 1 .. Len(transport[c]) : transport[c][i] = k})

\* Client.checkAck: the collector can acknowledge only a record it has received
AckOutcomes(t) ==
  IF Seen(cur[t], session.conn) >= wlen[cur[t]]
    THEN {"nil", "AcknowledgmentFailure"}
    ELSE {"AcknowledgmentFailure"}

\* Send, lines 210-212
Send_checkAck(t) ==
  /\ Alive
  /\ pc[t] = At("Send", "ack")
  /\ \E r \in AckOutcomes(t) : Finish(t, r)
  /\ UNCHANGED <<requireAck, session, writer, buf, nConn, closed, transport,
                 mutex, tickPending, tickerStopped, stopClosed, doneClosed,
                 nLoops, mw, cur, ops, wlen, acc, panic, hist>>

\* ---------------------------------------------------------- specification
Next ==
  \/ Tick
  \/ \E l \in LoopIds : flushLoop_Tick(l) \/ flushLoop_Stop(l) \/ flushLoop_Sync(l)
  \/ \E p \in Procs : Sync_Reset(p)
  \/ \E t \in Threads :
       \/ Connect(t) \/ connect(t)
       \/ Disconnect(t)
       \/ Reconnect(t) \/ Reconnect_connect(t)
       \/ Sync(t)
       \/ Stop(t) \/ Stop_Wait(t)
       \/ SendRaw_Check(t) \/ SendRaw_Phase(t)
       \/ Send(t) \/ Send_AckLock(t) \/ Send_checkAck(t)
       \/ Write_Begin(t) \/ Write_Reset(t) \/ Write_Copy(t)

Spec == Init /\ [][Next]_vars

\* ------------------------------------------------------------ properties
\* process p is in the middle of an operation of the msgp.Writer: a Flush that
\* has handed bytes over and not yet emptied the buffer, or a Write past its
\* check for room
OnAdapter(p) ==
  \/ InSync(p) /\ pc[p].at = "reset"
  \/ InWrite(p) /\ pc[p].at \in {"reset", "copy"}

\* C1: at most one operation executes on the buffered writer at any time: the
\* writes of Send and SendRaw and the flushes of Sync and of the scheduler
\* tick exclude each other.
C1_OneOnAdapter == Cardinality({p \in Procs : OnAdapter(p)}) <= 1

\* no call is in progress and no flushLoop is inside Sync
Quiet ==
  /\ \A t \in Threads : IsIdle(t)
  /\ \A l \in LoopIds : pc[l].at \in {"idle", "select", "exited"}

\* the only connection ever made is the open one the writer wraps
OneConnection ==
  /\ nConn = 1
  /\ session = [conn |-> 1, tp |-> TRUE]
  /\ writer = 1
  /\ closed = {}

\* the bytes of write call k lie next to each other on connection c
Contiguous(k, c) ==
  \A i, j \in 1 .. Len(transport[c]) :
    (i < j /\ transport[c][i] = k /\ transport[c][j] = k)
      => \A m \in i .. j : transport[c][m] = k

\* C2: once the concurrent SendRaw calls have returned and a final flush has
\* emptied the buffer, the transport holds exactly the bytes of the accepted
\* calls: every accepted payload whole and in one piece, nothing else.
C2_PayloadsIntact ==
  (Quiet /\ OneConnection /\ ~hist.send /\ buf[1] = <<>>)
    => \A k \in 1 .. Len(wlen) :
         /\ Seen(k, 1) = (IF k \in acc THEN wlen[k] ELSE 0)
         /\ Contiguous(k, 1)

\* a flushLoop goroutine that was started and has not returned
Running(l) == pc[l].at \in {"select", "lock", "flush", "reset"}

\* C3: once Stop has returned, no flushLoop goroutine is left running and no
\* scheduled flush is performed any more.
C3_StopSynchronous ==
  hist.stopReturned => /\ \A l \in LoopIds : ~Running(l)
                       /\ ~hist.lateFlush

\* the steps process p takes once it runs: everything but the start of a call
Step(p) ==
  \/ p \in LoopIds /\ (flushLoop_Tick(p) \/ flushLoop_Stop(p) \/ flushLoop_Sync(p))
  \/ Sync_Reset(p)
  \/ p \in Threads /\ (connect(p) \/ Stop_Wait(p) \/ SendRaw_Phase(p))
  \/ p \in Threads /\ Reconnect_connect(p)
  \/ p \in Threads /\ (Send_AckLock(p) \/ Send_checkAck(p))
  \/ p \in Threads /\ (Write_Begin(p) \/ Write_Reset(p) \/ Write_Copy(p))

\* the Go scheduler runs every goroutine that can take a step
FairSpec == Init /\ [][Next]_vars /\ \A p \in Procs : WF_vars(Step(p))

\* thread t is inside Stop, which it called on a connected client
StopOnConnected(t) ==
  /\ pc[t] = At("Stop", "wait")
  /\ hist.stopOn
  /\ Alive

\* C4: Stop called on a connected client with a running scheduler returns,
\* whatever the interleaving with the timer ticks.
C4_StopReturns ==
  \A t \in Threads : StopOnConnected(t) ~> (IsIdle(t) \/ ~Alive)

\* thread t executes, or has last completed, a Send or SendRaw during which
\* Client.session has not changed
SendUnderSession(t) ==
  /\ pc[t].op \in {"Send", "SendRaw"}
  /\ hist.at[t] = hist.epoch

\* C5: Send and SendRaw called while no session is active fail with
\* NoActiveSession, and called while the transport phase is incomplete fail
\* with HandshakeIncomplete; in both cases the writer is not touched.
C5_SendRejected ==
  \A t \in Threads :
    (SendUnderSession(t) /\ ~(SessionActive(session) /\ session.tp))
      => /\ ~hist.wrote[t]
         /\ pc[t].at \in (IF SessionActive(session) THEN {"rlock", "idle"} ELSE {"idle"})
         /\ IsIdle(t) => res[t] = (IF SessionActive(session)
                                     THEN "HandshakeIncomplete"
                                     ELSE "NoActiveSession")

C5_Witness ==
  \E t, u \in Threads :
    /\ pc[t] = At("Send", "idle") /\ res[t] = "NoActiveSession"
    /\ pc[u] = At("SendRaw", "idle") /\ res[u] = "HandshakeIncomplete"
    /\ SendUnderSession(u)
    /\ transport[session.conn] = <<>>

\* every call made so far was a Connect, and all of them have returned
OnlyConnects ==
  /\ ops > 0
  /\ ops = hist.connCalls
  /\ \A t \in Threads : IsIdle(t)

\* a Connect that finds a session active returns AlreadyConnected and leaves
\* the session, the writer, the connections and the flushLoops as they were
ConnectRefused ==
  \A t \in Threads :
    (hist'.connCalls # hist.connCalls /\ hist'.caller = t /\ SessionActive(session))
      => /\ pc'[t] = At("Connect", "idle")
         /\ res'[t] = "AlreadyConnected"
         /\ UNCHANGED <<session, writer, buf, nConn, nLoops, closed, transport>>
         /\ \A l \in LoopIds : pc'[l] = pc[l]

\* C6 as amended: while a session is active Connect fails with
\* AlreadyConnected and changes nothing; of the Connect calls made since the
\* session was last nil at most one succeeds, and of concurrent calls on a
\* fresh client exactly one does when establishing the connection never failed.
C6_ConnectOnce ==
  /\ [](hist.connOK <= 1)
  /\ []((OnlyConnects /\ ~hist.connFailed) => hist.connOK = 1)
  /\ [][ConnectRefused]_vars

C6_Witness ==
  /\ OnlyConnects
  /\ ~hist.connFailed
  /\ \E t, u \in Threads : res[t] = "nil" /\ res[u] = "AlreadyConnected"

\* C6 as stated: of the concurrent Connect calls on a fresh client exactly
\* one succeeds and the others fail with AlreadyConnected.
C6_ExactlyOneConnects ==
  OnlyConnects => /\ hist.connOK = 1
                  /\ \A t \in Threads : res[t] \in {"none", "nil", "AlreadyConnected"}

\* C7: when Send returns AcknowledgmentFailure, the bytes of its record have
\* been written to the transport.
C7_SentBeforeAck ==
  \A t \in Threads :
    (pc[t] = At("Send", "idle") /\ res[t] = "AcknowledgmentFailure")
      => \E c \in ConnIds : Seen(cur[t], c) >= wlen[cur[t]]

\* the bytes submitted by all write calls so far
RECURSIVE Total(_)
Total(k) == IF k = 0 THEN 0 ELSE wlen[k] + Total(k - 1)

\* C8: on a connected client whose writes stay below the buffer capacity, no
\* byte reaches the transport before a Sync or a scheduler tick, and once a
\* Sync has returned nil every byte accepted before it is on the transport.
C8_BufferedUntilSync ==
  (OneConnection /\ Total(Len(wlen)) < BufferSize)
    => /\ ~hist.flushed => transport[1] = <<>>
       /\ \A t \in Threads :
            (pc[t] = At("Sync", "idle") /\ res[t] = "nil")
              => \A k \in hist.accAt[t] : Seen(k, 1) = wlen[k] /\ Contiguous(k, 1)

\* C9: the shutdown sequence Stop, Sync, Disconnect completes from any
\* connected state: Stop is never left waiting for a flushLoop that cannot
\* exit, and once the three calls have returned no flushLoop runs and every
\* accepted byte is on a transport.
C9_GracefulShutdown ==
  /\ \A t \in Threads :
       (StopOnConnected(t) /\ ~doneClosed)
         => \E l \in LoopIds : Running(l) /\ pc[l].at # "lock"
  /\ hist.down = 3
       => /\ \A l \in LoopIds : ~Running(l)
          /\ \A k \in acc : \E c \in ConnIds : Seen(k, c) >= wlen[k]

\* thread t is inside an acknowledgment exchange: the write of a record
\* followed by the read of its acknowledgment
InAckExchange(t) ==
  /\ requireAck
  /\ pc[t].op = "Send"
  /\ pc[t].at \in {"write", "reset", "copy", "ack"}

\* C10: with RequireAck at most one acknowledgment exchange is in flight, and
\* its thread holds ackLock, not bc.mutex.
C10_OneAckExchange ==
  \A t \in Threads :
    InAckExchange(t)
      => /\ ackLock = t
         /\ mutex # t
         /\ \A u \in Threads \ {t} : ~InAckExchange(u)

C10_Witness ==
  \E t, u \in Threads, l \in LoopIds :
    /\ pc[t] = At("Send", "ack")
    /\ pc[u] = At("Send", "acklock")
    /\ mutex = l

\* a step of a flushLoop whose flush fails leaves it waiting in its select,
\* with no crash and no caller told; a flushLoop returns only once bc.stop
\* is closed
SchedulerSurvives ==
  \A l \in LoopIds :
    /\ (pc[l] = At("flushLoop", "lock") /\ pc'[l] # pc[l] /\ FlushFails)
         => /\ pc'[l] = At("flushLoop", "select")
            /\ UNCHANGED <<panic, res, stopClosed, doneClosed>>
    /\ (pc[l].at # "exited" /\ pc'[l].at = "exited") => stopClosed

\* C11: a flush that fails on a scheduler tick is swallowed: the flushLoop
\* goes back to its select without a crash, takes the ticks that follow, and
\* returns only because bc.stop was closed.
C11_FlushErrorSwallowed ==
  /\ [][SchedulerSurvives]_vars
  /\ [](\A l \in LoopIds : pc[l].at # "flush")
  /\ [](\A l \in LoopIds :
          (Alive /\ tickPending /\ pc[l] = At("flushLoop", "select"))
            => ENABLED flushLoop_Tick(l))

C11_Witness ==
  \E l \in hist.swallowed :
    /\ pc[l] = At("flushLoop", "lock")
    /\ ~stopClosed
    /\ Alive

\* C12: bc.writer is non-nil only while a session is active: nil before the
\* first Connect and nil again after Disconnect.
C12_WriterOnlyWhileActive ==
  (writer # 0 /\ sessionLock.w = 0) => SessionActive(session)

\* thread t has called Sync on a client that was never connected
SyncInactive(t) == pc[t].op = "Sync" /\ writer = 0 /\ nConn = 0

\* C13: Sync on a client that was never connected returns an error to its
\* caller, without I/O and without a crash.
C13_SyncInactiveFails ==
  \A t \in Threads :
    SyncInactive(t)
      => /\ Alive
         /\ IsIdle(t)
         /\ res[t] \notin {"none", "nil"}
         /\ \A c \in ConnIds : transport[c] = <<>>

\* C14: at most one flushLoop goroutine exists at any time.
C14_OneFlushLoop == Cardinality({l \in LoopIds : Running(l)}) <= 1

\* process p is inside the Writer.Flush of a Sync: the bytes are handed to the
\* connection and the buffer is not yet emptied
FlushInFlight(p) == InSync(p) /\ pc[p].at = "reset"

\* thread t is inside Stop
InStop(t) == pc[t].op = "Stop" /\ ~IsIdle(t)

\* a flush in flight is left only by its own completion, and Stop neither
\* disarms the ticker nor returns while one is in flight
StopSparesFlush ==
  /\ \A p \in Procs : FlushInFlight(p) => pc'[p] \in {pc[p], AfterSync(p)}
  /\ (tickerStopped' # tickerStopped \/ stopClosed' # stopClosed)
       => \A p \in Procs : ~FlushInFlight(p)
  /\ \A t \in Threads :
       (InStop(t) /\ pc'[t].at = "idle") => \A p \in Procs : ~FlushInFlight(p)

\* C15: Stop does not cut a flush short: a flush of Sync or of the scheduler
\* that has begun holds bc.mutex until it is complete, so Stop disarms the
\* ticker and returns only with no such flush in flight.
C15_StopAfterFlush ==
  /\ [](\A t \in Threads :
          InStop(t) => /\ mutex = t
                       /\ \A p \in Procs : ~FlushInFlight(p))
  /\ [][StopSparesFlush]_vars

C15_Witness ==
  \E t \in Threads :
    /\ pc[t] = At("Stop", "wait")
    /\ hist.flushDone
    /\ writer # 0
    /\ buf[writer] = <<>>
    /\ transport[writer] # <<>>

\* C16: Send and SendRaw read Client.session only under the session lock, so
\* a Disconnect in between never makes SendRaw dereference a nil session:
\* SendRaw past its nil check finds the session it checked.
C16_SessionReadLocked ==
  /\ panic # "nil session"
  /\ \A t \in Threads :
       (pc[t].op = "SendRaw" /\ pc[t].at \in {"write", "reset", "copy"})
         => /\ hist.at[t] = hist.epoch
            /\ SessionActive(session)

\* a flushLoop takes a tick although Stop, called on a connected client, has
\* closed bc.stop
LateTick ==
  \E l \in LoopIds :
    /\ stopClosed
    /\ hist.stopOn
    /\ pc[l] = At("flushLoop", "select")
    /\ pc'[l] = At("flushLoop", "lock")

\* C17: once Stop has stopped the ticker and closed bc.stop, a flushLoop takes
\* no tick any more, not even one that was waiting in the channel: its next
\* step is to return.
C17_NoTickAfterStop == [][~LateTick]_vars

\* C18: Stop returns in every state of the client, also when no Connect has
\* succeeded before it, and gives bc.mutex back.
C18_StopAlwaysReturns ==
  \A t \in Threads :
    (pc[t] = At("Stop", "wait") /\ Alive) ~> ((IsIdle(t) /\ mutex # t) \/ ~Alive)

\* Stop was called while bc.stop was closed already
StopTwice == \E t \in Threads : pc[t] = At("Stop", "disarm")

\* C19: when Stop is called at most once, bc.stop and bc.done are each closed
\* at most once: no Connect after Stop and Disconnect starts a flushLoop that
\* closes bc.done again.
C19_ClosedOnce == ~StopTwice => panic # "close of closed channel"

\* C20: while a session is active bc.writer wraps the connection of that
\* session, also after Reconnect.
C20_WriterWrapsSession ==
  (SessionActive(session) /\ session.tp) => writer = session.conn

====
